---- MODULE Spec2Model ----
(***************************************************************************)
(* A model of logger.go: the Go kit backed telemetry.Logger.               *)
(*                                                                         *)
(* Memory is modelled explicitly:                                          *)
(*   heap    the *Logger values allocated so far (a pointer is an index),  *)
(*   arrays  the backing arrays of the []interface{} slices,               *)
(*   cells   the int32 cells the lvl pointers point to.                    *)
(* The collaborators (the Go kit log.Logger sink, telemetry.Metric and     *)
(* telemetry.KeyValuesFromContext) are modelled by what the logger hands   *)
(* to them.                                                                *)
(***************************************************************************)
EXTENDS Integers, Sequences, FiniteSets, TLC

\* ------------------------------------------------------------------ bounds
\* The loggers allocated where calls are made, and where only derivations are.
MaxLoggers == 3
MaxTree == 4
\* The leveled calls made.
MaxCalls == 2

\* ------------------------------------------------------------------ values
\* An interface{} value: its dynamic type and its printed value.
Str(s) == [t |-> "string", v |-> s]
Num(s) == [t |-> "int", v |-> s]
ErrVal(s) == [t |-> "error", v |-> s]
NilVal == [t |-> "nil", v |-> "nil"]

None == 0
Error == 1
Info == 5
Debug == 10

MinInt32 == -2147483647 - 1
MaxInt32 == 2147483647

\* The Level arguments SetLevel is called with: the four named levels, the
\* values around each comparison of SetLevel, and the ends of int32.
LevelInputs == {MinInt32, -1, None, Error, 4, Info, 6, 9, Debug, 11, MaxInt32}

\* The key-values With is called with: none, a lone key, a non-string key,
\* one pair, two pairs, and a non-string key followed by a lone key.
WithInputs ==
    {<<>>,
     <<Str("k")>>,
     <<Num("42"), Str("v")>>,
     <<Str("a"), Num("1")>>,
     <<Str("a"), Num("1"), Str("b"), Num("2")>>,
     <<Num("42"), Str("v"), Str("k")>>}

\* The key-values a leveled call is given: none, a pair, a lone non-string.
CallInputs == {<<>>, <<Str("c"), Num("3")>>, <<Num("42")>>}

Msgs == {"disk full"}
Errs == {NilVal, ErrVal("errX")}
Sinks == {"w1", "w2"}
Metrics == {"m1", "m2"}
NoMetric == "nil"
Contexts == {"Background", "ctx1"}

\* telemetry.KeyValuesFromContext: the pairs a context carries.
KeyValuesFromContext(ctx) ==
    IF ctx = "ctx1" THEN <<Str("req"), Str("r1")>> ELSE <<>>

\* ------------------------------------------------------------------ slices
NilSlice == [arr |-> 0, len |-> 0, cap |-> 0]

Min(a, b) == IF a < b THEN a ELSE b

\* The elements a slice shows.
Elems(arrs, s) == [i \in 1..s.len |-> arrs[s.arr][i]]

\* make([]interface{}, n, c)
MakeSlice(arrs, n, c) ==
    [arrays |-> Append(arrs, [i \in 1..c |-> NilVal]),
     slice |-> [arr |-> Len(arrs) + 1, len |-> n, cap |-> c]]

\* copy(dst, src)
CopySlice(arrs, dst, src) ==
    LET n == Min(dst.len, src.len)
    IN IF n = 0 THEN arrs
       ELSE [arrs EXCEPT ![dst.arr] =
                [j \in 1..Len(@) |-> IF j <= n THEN arrs[src.arr][j] ELSE @[j]]]

\* append(s, xs...)
AppendSlice(arrs, s, xs) ==
    LET n == s.len + Len(xs)
    IN IF Len(xs) = 0 THEN [arrays |-> arrs, slice |-> s]
       ELSE IF n <= s.cap
       THEN [arrays |-> [arrs EXCEPT ![s.arr] =
                            [j \in 1..Len(@) |->
                                IF j > s.len /\ j <= n THEN xs[j - s.len] ELSE @[j]]],
             slice |-> [s EXCEPT !.len = n]]
       ELSE LET c == IF n > 2 * s.cap THEN n ELSE 2 * s.cap
                fresh == [j \in 1..c |->
                             IF j <= s.len THEN arrs[s.arr][j]
                             ELSE IF j <= n THEN xs[j - s.len] ELSE NilVal]
            IN [arrays |-> Append(arrs, fresh),
                slice |-> [arr |-> Len(arrs) + 1, len |-> n, cap |-> c]]

\* ------------------------------------------------------------------- state
VARIABLES
    heap,     \* the Loggers allocated so far; a *Logger is an index
    arrays,   \* the backing arrays of the args slices
    cells,    \* the int32 cells lvl pointers point to
    sink,     \* per sink, the number of Log calls it received
    metrics,  \* per metric, the RecordContext calls and the sum of their values
    origin,   \* history: the call that made each logger, and its arguments
    called,   \* history: per metric, the Info and Error calls on loggers holding it
    ncalls,   \* the number of leveled calls made (bounds the counters)
    last,     \* the record of the last call: its arguments and what it did
    g         \* per goroutine, the call it is in and where it is in it

vars == <<heap, arrays, cells, sink, metrics, origin, called, ncalls, last, g>>

Mem == [heap |-> heap, arrays |-> arrays, cells |-> cells]

\* The fields (l.args) of logger l.
Fields(l) == Elems(arrays, heap[l].args)

\* Mutant: the level read is the one the logger was constructed with.
LoadInitial(cs, p) == Info

\* atomic.LoadInt32(l.lvl)
LoadInt32(cs, p) == cs[p]

\* atomic.StoreInt32(l.lvl, v)
StoreInt32(cs, p, v) == [cs EXCEPT ![p] = v]

\* -------------------------------------------------------------- operations
\* New: a fresh level cell holding Info, the background context, no fields.
New(m, logger) ==
    [mem |-> [heap |-> Append(m.heap,
                         [ctx |-> "Background", args |-> NilSlice,
                          metric |-> NoMetric, lvl |-> Len(m.cells) + 1,
                          logger |-> logger]),
              arrays |-> m.arrays,
              cells |-> Append(m.cells, Info)],
     res |-> Len(m.heap) + 1]

\* Mutant: the first comparison is <= instead of <.
NormalizeOffByOne(lvl) ==
    IF lvl <= Info THEN Error
    ELSE IF lvl < Debug THEN Info
    ELSE Debug

\* Mutant: a request below Error is stored as None.
NormalizeToNone(lvl) ==
    IF lvl < Error THEN None
    ELSE IF lvl < Info THEN Error
    ELSE IF lvl < Debug THEN Info
    ELSE Debug

\* SetLevel's clamp of the requested level.
Normalize(lvl) ==
    IF lvl < Info THEN Error
    ELSE IF lvl < Debug THEN Info
    ELSE Debug

SetLevel(m, l, lvl) ==
    [m EXCEPT !.cells = StoreInt32(m.cells, m.heap[l].lvl, Normalize(lvl))]

\* The loop of With over the padded key-values (i is 1-based).
RECURSIVE WithLoop(_, _, _, _)
WithLoop(arrs, s, keyValues, i) ==
    IF i > Len(keyValues) THEN [arrays |-> arrs, slice |-> s]
    ELSE IF keyValues[i].t = "string"
    THEN LET a == AppendSlice(arrs, s, <<keyValues[i], keyValues[i + 1]>>)
         IN WithLoop(a.arrays, a.slice, keyValues, i + 2)
    ELSE WithLoop(arrs, s, keyValues, i + 2)

\* Mutant: a trailing key without a value is dropped.
PadDropsKey(keyValues) ==
    IF Len(keyValues) % 2 # 0 THEN SubSeq(keyValues, 1, Len(keyValues) - 1)
    ELSE keyValues

\* With's padding of an odd number of key-values.
Pad(keyValues) ==
    IF Len(keyValues) % 2 # 0 THEN Append(keyValues, Str("(MISSING)")) ELSE keyValues

\* Mutant: the pairs are appended to the receiver's own args, and it is returned.
WithInPlace(m, l, keyValues) ==
    IF Len(keyValues) = 0 THEN [mem |-> m, res |-> l]
    ELSE LET lp == WithLoop(m.arrays, m.heap[l].args, Pad(keyValues), 1)
         IN [mem |-> [m EXCEPT !.heap[l].args = lp.slice, !.arrays = lp.arrays],
             res |-> l]

With(m, l, keyValues) ==
    IF Len(keyValues) = 0 THEN [mem |-> m, res |-> l]
    ELSE LET kvs == Pad(keyValues)
             old == m.heap[l]
             mk == MakeSlice(m.arrays, old.args.len, old.args.len + Len(kvs))
             cp == CopySlice(mk.arrays, mk.slice, old.args)
             lp == WithLoop(cp, mk.slice, kvs, 1)
             newLogger == [ctx |-> old.ctx, args |-> lp.slice, metric |-> old.metric,
                           lvl |-> old.lvl, logger |-> old.logger]
         IN [mem |-> [m EXCEPT !.heap = Append(m.heap, newLogger), !.arrays = lp.arrays],
             res |-> Len(m.heap) + 1]

\* Mutant: the new logger gets a cell of its own holding a copy of the level.
ContextPrivateLevel(m, l, ctx) ==
    LET old == m.heap[l]
        mk == MakeSlice(m.arrays, old.args.len, old.args.len)
        cp == CopySlice(mk.arrays, mk.slice, old.args)
        newLogger == [ctx |-> ctx, args |-> mk.slice, metric |-> old.metric,
                      lvl |-> Len(m.cells) + 1, logger |-> old.logger]
    IN [mem |-> [heap |-> Append(m.heap, newLogger), arrays |-> cp,
                 cells |-> Append(m.cells, m.cells[old.lvl])],
        res |-> Len(m.heap) + 1]

Context(m, l, ctx) ==
    LET old == m.heap[l]
        mk == MakeSlice(m.arrays, old.args.len, old.args.len)
        cp == CopySlice(mk.arrays, mk.slice, old.args)
        newLogger == [ctx |-> ctx, args |-> mk.slice, metric |-> old.metric,
                      lvl |-> old.lvl, logger |-> old.logger]
    IN [mem |-> [m EXCEPT !.heap = Append(m.heap, newLogger), !.arrays = cp],
        res |-> Len(m.heap) + 1]

Metric(m, l, metric) ==
    LET old == m.heap[l]
        mk == MakeSlice(m.arrays, old.args.len, old.args.len)
        cp == CopySlice(mk.arrays, mk.slice, old.args)
        newLogger == [ctx |-> old.ctx, args |-> mk.slice, metric |-> metric,
                      lvl |-> old.lvl, logger |-> old.logger]
    IN [mem |-> [m EXCEPT !.heap = Append(m.heap, newLogger), !.arrays = cp],
        res |-> Len(m.heap) + 1]

\* The level a call of each method needs (the right side of its comparison).
CallLevel(op) ==
    CASE op = "Debug" -> Debug
      [] op = "Info" -> Info
      [] op = "Error" -> Error

\* Mutant: the call returns when loaded <= its level.
PassesStrict(op, loaded) == ~(loaded <= CallLevel(op))

\* The early return of a leveled call: it goes on unless loaded < its level.
Passes(op, loaded) == ~(loaded < CallLevel(op))

\* Mutant: Debug records the metric too.
RecordsMetricDebugToo(op, metric) == metric # NoMetric

\* Whether the method records the logger's metric before its level check.
RecordsMetric(op, metric) ==
    CASE op = "Debug" -> FALSE
      [] op = "Info" -> metric # NoMetric
      [] op = "Error" -> metric # NoMetric

\* metric.RecordContext(ctx, n)
RecordContext(ms, metric, n) ==
    [ms EXCEPT ![metric] = [count |-> @.count + 1, sum |-> @.sum + n]]

\* Mutant: the logger's fields are put before the context's pairs.
ArgsFieldsFirst(op, msg, err, ctxKVs, fields, keyValues) ==
    LET head == CASE op = "Debug" -> <<Str("msg"), Str(msg), Str("level"), Str("debug")>>
                  [] op = "Info" -> <<Str("msg"), Str(msg), Str("level"), Str("info")>>
                  [] op = "Error" -> <<Str("msg"), Str(msg), Str("level"), Str("error"),
                                       Str("error"), err>>
    IN ((head \o fields) \o ctxKVs) \o keyValues

\* The args a leveled call builds for the sink.
Args(op, msg, err, ctxKVs, fields, keyValues) ==
    LET head == CASE op = "Debug" -> <<Str("msg"), Str(msg), Str("level"), Str("debug")>>
                  [] op = "Info" -> <<Str("msg"), Str(msg), Str("level"), Str("info")>>
                  [] op = "Error" -> <<Str("msg"), Str(msg), Str("level"), Str("error"),
                                       Str("error"), err>>
    IN ((head \o ctxKVs) \o fields) \o keyValues

\* logger.Log(args...): the sink counts the call; the line it was handed is
\* kept in the record of the call (last.line).
Log(sk, logger) == [sk EXCEPT ![logger] = @ + 1]

\* Mutant: the sink's error is handed on to the caller.
Propagate(failed) == IF failed THEN "sink error" ELSE "nil"

\* `_ = l.logger.Log(...)`: what the caller sees of the sink's result.
Discard(failed) == "nil"

\* --------------------------------------------------------------- the steps
Goroutines == {"g1", "g2"}

\* A goroutine outside any call, before its first.
Idle ==
    [pc |-> "idle", op |-> "none", l |-> 0, val |-> 0, loaded |-> 0, loads |-> 0,
     held |-> {}, emitted |-> FALSE]

NoCall ==
    [op |-> "none", l |-> 0, msg |-> "", err |-> NilVal, kv |-> <<>>, req |-> 0,
     lvl |-> 0, sinkBefore |-> sink, metricsBefore |-> metrics, res |-> 0,
     line |-> <<>>, failed |-> FALSE, reported |-> "nil",
     afterFailure |-> last.afterFailure \/ last.failed]

Init ==
    /\ heap = <<>>
    /\ arrays = <<>>
    /\ cells = <<>>
    /\ sink = [s \in Sinks |-> 0]
    /\ metrics = [x \in Metrics |-> [count |-> 0, sum |-> 0]]
    /\ origin = <<>>
    /\ called = [x \in Metrics |-> 0]
    /\ ncalls = 0
    /\ last = [op |-> "none", l |-> 0, msg |-> "", err |-> NilVal, kv |-> <<>>,
               req |-> 0, lvl |-> 0, sinkBefore |-> [s \in Sinks |-> 0],
               metricsBefore |-> [x \in Metrics |-> [count |-> 0, sum |-> 0]],
               res |-> 0, line |-> <<>>, failed |-> FALSE, reported |-> "nil",
               afterFailure |-> FALSE]
    /\ g = [x \in Goroutines |-> Idle]

\* The history record of a logger's making.
Made == [from |-> 0, op |-> "", kv |-> <<>>, ctx |-> "", metric |-> ""]

SetMem(m) ==
    /\ heap' = m.heap
    /\ arrays' = m.arrays
    /\ cells' = m.cells

\* A root Logger is constructed once per sink.
DoNew(sinks) ==
    \E s \in sinks :
        /\ \A i \in DOMAIN heap : heap[i].logger # s
        /\ LET r == New(Mem, s)
           IN /\ SetMem(r.mem)
              /\ last' = [NoCall EXCEPT !.op = "New", !.res = r.res]
        /\ origin' = Append(origin, [Made EXCEPT !.op = "New"])
        /\ UNCHANGED <<sink, metrics, called, ncalls, g>>

DoSetLevel(levels) ==
    \E l \in DOMAIN heap, lvl \in levels :
        /\ SetMem(SetLevel(Mem, l, lvl))
        /\ last' = [NoCall EXCEPT !.op = "SetLevel", !.l = l, !.req = lvl]
        /\ UNCHANGED <<sink, metrics, origin, called, ncalls, g>>

\* A derivation's history: the call that returned a new logger.
Derived(r, made) ==
    IF r.res = Len(heap) + 1
    THEN origin' = Append(origin, made)
    ELSE UNCHANGED origin

DoWith(kvs) ==
    \E l \in DOMAIN heap, keyValues \in kvs :
        /\ LET r == With(Mem, l, keyValues)
           IN /\ SetMem(r.mem)
              /\ Derived(r, [Made EXCEPT !.from = l, !.op = "With", !.kv = keyValues])
              /\ last' = [NoCall EXCEPT !.op = "With", !.l = l, !.kv = keyValues,
                                        !.res = r.res]
        /\ UNCHANGED <<sink, metrics, called, ncalls, g>>

DoContext(ctxs) ==
    \E l \in DOMAIN heap, ctx \in ctxs :
        /\ LET r == Context(Mem, l, ctx)
           IN /\ SetMem(r.mem)
              /\ Derived(r, [Made EXCEPT !.from = l, !.op = "Context", !.ctx = ctx])
              /\ last' = [NoCall EXCEPT !.op = "Context", !.l = l, !.res = r.res]
        /\ UNCHANGED <<sink, metrics, called, ncalls, g>>

DoMetric(ms) ==
    \E l \in DOMAIN heap, metric \in ms :
        /\ LET r == Metric(Mem, l, metric)
           IN /\ SetMem(r.mem)
              /\ Derived(r, [Made EXCEPT !.from = l, !.op = "Metric", !.metric = metric])
              /\ last' = [NoCall EXCEPT !.op = "Metric", !.l = l, !.res = r.res]
        /\ UNCHANGED <<sink, metrics, called, ncalls, g>>

\* A whole leveled call: metric, level check, args, sink.
Leveled(op, l, msg, err, keyValues, failed) ==
    LET lg == heap[l]
        loaded == LoadInt32(cells, lg.lvl)
        args == Args(op, msg, err, KeyValuesFromContext(lg.ctx),
                     Elems(arrays, lg.args), keyValues)
    IN /\ ncalls < MaxCalls
       /\ ncalls' = ncalls + 1
       /\ called' = [x \in Metrics |->
                        IF op \in {"Info", "Error"} /\ lg.metric = x
                        THEN called[x] + 1 ELSE called[x]]
       /\ metrics' = IF RecordsMetric(op, lg.metric)
                     THEN RecordContext(metrics, lg.metric, 1) ELSE metrics
       /\ sink' = IF Passes(op, loaded) THEN Log(sink, lg.logger) ELSE sink
       /\ last' = [NoCall EXCEPT !.op = op, !.l = l, !.msg = msg, !.err = err,
                                 !.kv = keyValues, !.lvl = cells[lg.lvl],
                                 !.line = IF Passes(op, loaded) THEN args ELSE <<>>,
                                 !.failed = Passes(op, loaded) /\ failed,
                                 !.reported = IF Passes(op, loaded)
                                              THEN Discard(failed) ELSE "nil"]
       /\ UNCHANGED <<heap, arrays, cells, origin, g>>

DoDebug(kvs, fails) ==
    \E l \in DOMAIN heap, msg \in Msgs, keyValues \in kvs, failed \in fails :
        Leveled("Debug", l, msg, NilVal, keyValues, failed)

DoInfo(kvs, fails) ==
    \E l \in DOMAIN heap, msg \in Msgs, keyValues \in kvs, failed \in fails :
        Leveled("Info", l, msg, NilVal, keyValues, failed)

DoError(kvs, errs, fails) ==
    \E l \in DOMAIN heap, msg \in Msgs, err \in errs, keyValues \in kvs,
       failed \in fails :
        Leveled("Error", l, msg, err, keyValues, failed)

OnePair == {<<>>, <<Str("k"), Num("42")>>}
FieldInputs == {<<>>, <<Str("k")>>, <<Str("a"), Num("1"), Str("b"), Num("2")>>}
Levels == {Error, Info, Debug}

Room == Len(heap) < MaxLoggers
TreeRoom == Len(heap) < MaxTree

\* The threshold's values: every level input through a root and the loggers
\* derived from it, and Error calls.
Next ==
    \/ (Room /\ DoNew({"w1"}))
    \/ DoSetLevel(LevelInputs)
    \/ (Room /\ DoContext({"ctx1"}))
    \/ DoError({<<>>}, Errs, {FALSE})

Spec == Init /\ [][Next]_vars

\* The threshold's sharing: two roots, every derivation, the three levels
\* set through every logger.
ShareNext ==
    \/ (TreeRoom /\ DoNew(Sinks))
    \/ DoSetLevel(Levels)
    \/ (TreeRoom /\ DoWith(OnePair))
    \/ (TreeRoom /\ DoContext({"ctx1"}))
    \/ (TreeRoom /\ DoMetric({"m1"}))

ShareSpec == Init /\ [][ShareNext]_vars

\* The leveled calls: every method under every threshold, with and without
\* a metric, the sink failing or not.
CallNext ==
    \/ (Room /\ DoNew({"w1"}))
    \/ DoSetLevel(Levels)
    \/ (Room /\ DoMetric(Metrics))
    \/ DoDebug({<<>>}, BOOLEAN)
    \/ DoInfo({<<>>}, BOOLEAN)
    \/ DoError({<<>>}, {NilVal}, BOOLEAN)

CallSpec == Init /\ [][CallNext]_vars

\* The lines: every method on loggers derived with With and Context, with
\* key-values of its own.
FieldNext ==
    \/ (Room /\ DoNew({"w1"}))
    \/ DoSetLevel({Debug})
    \/ (Room /\ DoWith(FieldInputs))
    \/ (Room /\ DoContext({"ctx1"}))
    \/ DoDebug(CallInputs, {FALSE})
    \/ DoInfo(CallInputs, {FALSE})
    \/ DoError(CallInputs, Errs, {FALSE})

FieldSpec == Init /\ [][FieldNext]_vars

\* The derivations alone, with every With input, to a tree of MaxTree loggers.
DeriveNext ==
    \/ (TreeRoom /\ DoNew({"w1"}))
    \/ (TreeRoom /\ DoWith(WithInputs))
    \/ (TreeRoom /\ DoContext(Contexts))
    \/ (TreeRoom /\ DoMetric({"m1"}))

DeriveSpec == Init /\ [][DeriveNext]_vars

\* ------------------------------------------------------- concurrent calls
\* The calls as goroutines run them: a step is what happens up to and
\* including one access of shared state (the metric, the atomic load or
\* store, the sink).

\* root := New(w1); a := root.With("k", 42); b := a.Metric(m1)
RaceMem ==
    LET r1 == New([heap |-> <<>>, arrays |-> <<>>, cells |-> <<>>], "w1")
        r2 == With(r1.mem, r1.res, <<Str("k"), Num("42")>>)
        r3 == Metric(r2.mem, r2.res, "m1")
    IN r3.mem

RaceInit ==
    /\ heap = RaceMem.heap
    /\ arrays = RaceMem.arrays
    /\ cells = RaceMem.cells
    /\ origin = <<[Made EXCEPT !.op = "New"],
                  [Made EXCEPT !.from = 1, !.op = "With", !.kv = <<Str("k"), Num("42")>>],
                  [Made EXCEPT !.from = 2, !.op = "Metric", !.metric = "m1"]>>
    /\ sink = [s \in Sinks |-> 0]
    /\ metrics = [x \in Metrics |-> [count |-> 0, sum |-> 0]]
    /\ called = [x \in Metrics |-> 0]
    /\ ncalls = 0
    /\ last = [op |-> "none", l |-> 0, msg |-> "", err |-> NilVal, kv |-> <<>>,
               req |-> 0, lvl |-> 0, sinkBefore |-> [s \in Sinks |-> 0],
               metricsBefore |-> [x \in Metrics |-> [count |-> 0, sum |-> 0]],
               res |-> 0, line |-> <<>>, failed |-> FALSE, reported |-> "nil",
               afterFailure |-> FALSE]
    /\ g = [x \in Goroutines |-> Idle]

\* The levels the racing SetLevel calls ask for; they store Error, Info, Debug.
RaceLevels == {None, Info, MaxInt32}

InCall(x) == g[x].pc \in {"metric", "load", "emit"}

\* Debug, Info or Error is called: nothing shared is touched yet.
BeginCall(x) ==
    \E op \in {"Debug", "Info", "Error"}, l \in DOMAIN heap :
        /\ g[x].pc = "idle"
        /\ ncalls < MaxCalls
        /\ ncalls' = ncalls + 1
        /\ called' = [y \in Metrics |->
                         IF op \in {"Info", "Error"} /\ heap[l].metric = y
                         THEN called[y] + 1 ELSE called[y]]
        /\ g' = [g EXCEPT ![x] = [Idle EXCEPT !.pc = "metric", !.op = op, !.l = l,
                                              !.held = {cells[heap[l].lvl]}]]
        /\ UNCHANGED <<heap, arrays, cells, sink, metrics, origin, last>>

\* if l.metric != nil { l.metric.RecordContext(l.ctx, 1) }
StepMetric(x) ==
    /\ g[x].pc = "metric"
    /\ metrics' = IF RecordsMetric(g[x].op, heap[g[x].l].metric)
                  THEN RecordContext(metrics, heap[g[x].l].metric, 1) ELSE metrics
    /\ g' = [g EXCEPT ![x].pc = "load"]
    /\ UNCHANGED <<heap, arrays, cells, sink, origin, called, ncalls, last>>

\* if atomic.LoadInt32(l.lvl) < int32(...) { return }
StepLoad(x) ==
    /\ g[x].pc = "load"
    /\ LET loaded == LoadInt32(cells, heap[g[x].l].lvl)
       IN g' = [g EXCEPT ![x].loaded = loaded,
                         ![x].loads = @ + 1,
                         ![x].pc = IF Passes(g[x].op, loaded) THEN "emit" ELSE "idle"]
    /\ UNCHANGED <<heap, arrays, cells, sink, metrics, origin, called, ncalls, last>>

\* _ = l.logger.Log(args...)
StepEmit(x) ==
    /\ g[x].pc = "emit"
    /\ sink' = Log(sink, heap[g[x].l].logger)
    /\ g' = [g EXCEPT ![x].emitted = TRUE, ![x].pc = "idle"]
    /\ UNCHANGED <<heap, arrays, cells, metrics, origin, called, ncalls, last>>

\* SetLevel is called and clamps its argument, a local.
BeginSetLevel(x) ==
    \E l \in DOMAIN heap, lvl \in RaceLevels :
        /\ g[x].pc = "idle"
        /\ g' = [g EXCEPT ![x] = [Idle EXCEPT !.pc = "store", !.op = "SetLevel",
                                              !.l = l, !.val = Normalize(lvl)]]
        /\ UNCHANGED <<heap, arrays, cells, sink, metrics, origin, called, ncalls, last>>

\* atomic.StoreInt32(l.lvl, int32(lvl)); the calls under way on loggers of
\* this cell note the value it now holds.
StepStore(x) ==
    /\ g[x].pc = "store"
    /\ cells' = StoreInt32(cells, heap[g[x].l].lvl, g[x].val)
    /\ g' = [y \in Goroutines |->
                IF y = x THEN [g[x] EXCEPT !.pc = "idle"]
                ELSE IF InCall(y) /\ heap[g[y].l].lvl = heap[g[x].l].lvl
                THEN [g[y] EXCEPT !.held = @ \cup {g[x].val}]
                ELSE g[y]]
    /\ UNCHANGED <<heap, arrays, sink, metrics, origin, called, ncalls, last>>

RaceNext ==
    \E x \in Goroutines :
        \/ BeginCall(x)
        \/ StepMetric(x)
        \/ StepLoad(x)
        \/ StepEmit(x)
        \/ BeginSetLevel(x)
        \/ StepStore(x)

RaceSpec == RaceInit /\ [][RaceNext]_vars

\* ------------------------------------------------------------------ claims
\* The properties below are stated with the specification's own tables (Need,
\* Normalized) and with what the history variables recorded (RootOf,
\* Attached), not with the operators that model the code.
Leveled_ops == {"Debug", "Info", "Error"}

\* The root a logger was derived from, along the recorded derivations.
RECURSIVE RootOf(_)
RootOf(i) == IF origin[i].from = 0 THEN i ELSE RootOf(origin[i].from)

\* The threshold logger i's next level check reads.
Threshold(i) == cells[heap[i].lvl]

\* The threshold each method needs, as the specification states it.
Need(op) == CASE op = "Debug" -> 10 [] op = "Info" -> 5 [] op = "Error" -> 1

\* The sink calls and metric records the last call made.
SinkDelta(s) == sink[s] - last.sinkBefore[s]
MetricDelta(x) == metrics[x].count - last.metricsBefore[x].count

\* C1: all loggers derived from one root read one threshold cell (none holds
\* a private copy), and after SetLevel through any of them every logger of
\* that root reads the level just set.
C1_SharedThreshold ==
    /\ \A i \in DOMAIN heap : heap[i].lvl = heap[RootOf(i)].lvl
    /\ \A i, j \in DOMAIN heap : RootOf(i) = RootOf(j) => Threshold(i) = Threshold(j)
    /\ last.op = "SetLevel" =>
          \A j \in DOMAIN heap :
              RootOf(j) = RootOf(last.l) =>
                  Threshold(j) = (IF last.req < 5 THEN 1 ELSE IF last.req < 10 THEN 5 ELSE 10)

\* SetLevel(Debug) through a derived logger, read by its root and by a sibling.
C1_Witness ==
    /\ last.op = "SetLevel"
    /\ last.req = Debug
    /\ origin[last.l].from # 0
    /\ \E j \in DOMAIN heap :
          /\ j # last.l
          /\ origin[j].from # 0
          /\ RootOf(j) = RootOf(last.l)
          /\ Threshold(j) = Debug
          /\ Threshold(RootOf(j)) = Debug

\* C2: SetLevel(L) stores Error if L < 5, Info if 5 <= L < 10, Debug if
\* L >= 10, for every int32 L, and the next read returns that value.
C2_SetLevelNormalizes ==
    last.op = "SetLevel" =>
        LoadInt32(cells, heap[last.l].lvl) =
            (CASE last.req < 5 -> 1
               [] last.req >= 5 /\ last.req < 10 -> 5
               [] last.req >= 10 -> 10)

\* SetLevel(None) stored Error.
C2_Witness ==
    /\ last.op = "SetLevel"
    /\ last.req = 0
    /\ Threshold(last.l) = 1

\* C3: each metric has been invoked once, with 1, for every Info and Error
\* call on a logger holding it, whatever the threshold was; a call on a
\* logger without a metric, a Debug call and every other operation invoke none.
C3_MetricCountsCalls ==
    /\ \A x \in Metrics : metrics[x].count = called[x] /\ metrics[x].sum = called[x]
    /\ \A x \in Metrics :
          MetricDelta(x) =
              (IF last.op \in {"Info", "Error"} /\ heap[last.l].metric = x THEN 1 ELSE 0)

\* A second call on m1, an Info suppressed by the threshold Error.
C3_Witness ==
    /\ last.op = "Info"
    /\ last.lvl = Error
    /\ heap[last.l].metric = "m1"
    /\ last.line = <<>>
    /\ metrics["m1"].count = 2

\* C4: a leveled call makes one sink call when the threshold is at least the
\* call's level (Debug 10, Info 5, Error 1) and none otherwise, and the line
\* carries the call's own level name.
C4_Gating ==
    last.op \in Leveled_ops =>
        LET need == Need(last.op)
            name == CASE last.op = "Debug" -> "debug" [] last.op = "Info" -> "info"
                      [] last.op = "Error" -> "error"
        IN /\ \A s \in Sinks :
                 SinkDelta(s) =
                     (IF s = heap[last.l].logger /\ last.lvl >= need THEN 1 ELSE 0)
           /\ last.lvl >= need =>
                 /\ Len(last.line) >= 4
                 /\ last.line[3] = Str("level")
                 /\ last.line[4] = Str(name)
           /\ last.lvl < need => last.line = <<>>

\* An Info call emitted under the threshold Debug, and named "info".
C4_Witness ==
    /\ last.op = "Info"
    /\ last.lvl = Debug
    /\ SinkDelta(heap[last.l].logger) = 1
    /\ last.line[4] = Str("info")

\* C9: a call whose sink fails reports no error and leaves the loggers and
\* the thresholds as they were, and a leveled call made after a failure is
\* gated and handed to the sink as any other.
C9_SinkFailureSwallowed ==
    [][/\ last'.failed =>
             /\ last'.reported = "nil"
             /\ heap' = heap
             /\ arrays' = arrays
             /\ cells' = cells
       /\ (last'.afterFailure /\ ncalls' # ncalls) =>
             /\ sink'[heap[last'.l].logger] - sink[heap[last'.l].logger] =
                   (IF Threshold(last'.l) >= Need(last'.op) THEN 1 ELSE 0)
             /\ (Threshold(last'.l) >= Need(last'.op)) = (last'.line # <<>>)]_vars

\* A call handed to the sink after an earlier call's sink failed.
C9_Witness ==
    /\ last.afterFailure
    /\ last.op \in Leveled_ops
    /\ last.line # <<>>
    /\ last.reported = "nil"
    /\ SinkDelta(heap[last.l].logger) = 1

\* C10: every threshold is Error, Info or Debug and never None, so every
\* Error call makes exactly one sink call.
C10_ErrorNeverSilenced ==
    /\ \A c \in DOMAIN cells : cells[c] \in {Error, Info, Debug}
    /\ last.op = "Error" =>
          /\ SinkDelta(heap[last.l].logger) = 1
          /\ last.line # <<>>

\* An Error call emitted under the lowest threshold SetLevel can store.
C10_Witness ==
    /\ last.op = "Error"
    /\ last.lvl = Error
    /\ SinkDelta(heap[last.l].logger) = 1

\* The pairs of a flat key-value list whose key is a string, in order.
RECURSIVE StringKeyed(_)
StringKeyed(kv) ==
    IF Len(kv) < 2 THEN <<>>
    ELSE (IF kv[1].t = "string" THEN <<kv[1], kv[2]>> ELSE <<>>)
         \o StringKeyed(SubSeq(kv, 3, Len(kv)))

\* The normalization the specification states for With's input.
Normalized(kv) ==
    StringKeyed(IF Len(kv) % 2 = 1 THEN kv \o <<Str("(MISSING)")>> ELSE kv)

\* What the derivations that led to logger i attached, oldest first.
RECURSIVE Attached(_)
Attached(i) ==
    IF origin[i].from = 0 THEN <<>>
    ELSE Attached(origin[i].from)
         \o (IF origin[i].op = "With" THEN Normalized(origin[i].kv) ELSE <<>>)

RECURSIVE AttachedCtx(_)
AttachedCtx(i) ==
    IF origin[i].from = 0 THEN "Background"
    ELSE IF origin[i].op = "Context" THEN origin[i].ctx
    ELSE AttachedCtx(origin[i].from)

RECURSIVE AttachedMetric(_)
AttachedMetric(i) ==
    IF origin[i].from = 0 THEN NoMetric
    ELSE IF origin[i].op = "Metric" THEN origin[i].metric
    ELSE AttachedMetric(origin[i].from)

\* C5: an emitted line is "msg", the message, "level", the call's level name,
\* for Error "error" and the error, the pairs of the attached context, the
\* fields attached by the With derivations oldest first, and the call's own
\* key-values, with nothing reordered, dropped or added.
C5_LineOrder ==
    (last.op \in Leveled_ops /\ last.lvl >= Need(last.op)) =>
        last.line =
            <<Str("msg"), Str(last.msg), Str("level"),
              Str(CASE last.op = "Debug" -> "debug" [] last.op = "Info" -> "info"
                    [] last.op = "Error" -> "error")>>
            \o (IF last.op = "Error" THEN <<Str("error"), last.err>> ELSE <<>>)
            \o KeyValuesFromContext(AttachedCtx(last.l))
            \o Attached(last.l)
            \o last.kv

\* The line of an Error call on a logger with a context and the fields a, 1,
\* b, 2, given the pair c, 3.
C5_Witness ==
    /\ last.op = "Error"
    /\ last.err = ErrVal("errX")
    /\ last.kv = <<Str("c"), Num("3")>>
    /\ last.line = <<Str("msg"), Str("disk full"), Str("level"), Str("error"),
                     Str("error"), ErrVal("errX"), Str("req"), Str("r1"),
                     Str("a"), Num("1"), Str("b"), Num("2"), Str("c"), Num("3")>>

\* C6: With of a non-empty input returns a new logger whose fields are the
\* receiver's followed by the input's pairs with a string key, the input
\* first padded with "(MISSING)" when its length is odd.
C6_WithNormalizes ==
    (last.op = "With" /\ last.kv # <<>>) =>
        /\ last.res = Len(heap)
        /\ last.res # last.l
        /\ Fields(last.res) = Fields(last.l) \o Normalized(last.kv)
        /\ last.kv = <<Str("k")>> =>
              Fields(last.res) = Fields(last.l) \o <<Str("k"), Str("(MISSING)")>>
        /\ last.kv = <<Num("42"), Str("v")>> => Fields(last.res) = Fields(last.l)

\* With(42, "v", "k") on a logger with fields: the pair 42, "v" is dropped
\* and "k" is paired with "(MISSING)".
C6_Witness ==
    /\ last.op = "With"
    /\ last.kv = <<Num("42"), Str("v"), Str("k")>>
    /\ Fields(last.l) = <<Str("a"), Num("1")>>
    /\ Fields(last.res) = <<Str("a"), Num("1"), Str("k"), Str("(MISSING)")>>

\* C7: no step changes the fields, context or metric of a logger that
\* exists, and every logger holds exactly what its own chain of derivations
\* attached.
C7_DerivationFrame ==
    /\ [](\A i \in DOMAIN heap :
             /\ Fields(i) = Attached(i)
             /\ heap[i].ctx = AttachedCtx(i)
             /\ heap[i].metric = AttachedMetric(i))
    /\ [][\A i \in DOMAIN heap :
             /\ i \in DOMAIN heap'
             /\ heap'[i].ctx = heap[i].ctx
             /\ heap'[i].metric = heap[i].metric
             /\ Elems(arrays', heap'[i].args) = Elems(arrays, heap[i].args)]_vars

\* A parent with two children of different fields and a child of a child,
\* the parent's own fields as they were.
C7_Witness ==
    \E p, a, b, c \in DOMAIN heap :
        /\ origin[a].from = p /\ origin[b].from = p /\ origin[c].from = a
        /\ a # b
        /\ origin[a].op = "With" /\ origin[b].op = "With" /\ origin[c].op = "With"
        /\ Fields(p) = <<>>
        /\ Fields(a) = <<Str("k"), Str("(MISSING)")>>
        /\ Fields(b) = <<Str("a"), Num("1")>>
        /\ Fields(c) = <<Str("k"), Str("(MISSING)"), Str("a"), Num("1"), Str("b"), Num("2")>>

\* C8: a leveled call racing with SetLevel loads the threshold once, the
\* value it loads is one the threshold held during the call and is Error,
\* Info or Debug, its line is emitted exactly when that value is at least the
\* call's level, and the loggers and thresholds stay well formed.
C8_RaceDecision ==
    /\ \A x \in Goroutines :
          /\ g[x].loads <= 1
          /\ g[x].loads = 1 =>
                /\ g[x].loaded \in g[x].held
                /\ g[x].loaded \in {1, 5, 10}
          /\ (g[x].pc = "idle" /\ g[x].op \in Leveled_ops) =>
                /\ g[x].loads = 1
                /\ g[x].emitted = (g[x].loaded >= Need(g[x].op))
          /\ g[x].pc = "emit" => g[x].loaded >= Need(g[x].op)
    /\ \A c \in DOMAIN cells : cells[c] \in {1, 5, 10}
    /\ heap = RaceMem.heap /\ arrays = RaceMem.arrays
    /\ \A x \in Metrics : metrics[x].count <= called[x]

\* A Debug call emitted on the Debug it loaded, SetLevel having stored Error
\* before the call ended: one stale decision.
C8_Witness ==
    \E x \in Goroutines :
        /\ g[x].pc = "idle"
        /\ g[x].op = "Debug"
        /\ g[x].emitted
        /\ g[x].loaded = Debug
        /\ g[x].held = {Info, Debug, Error}
        /\ Threshold(g[x].l) = Error

====
